---- MODULE Spec2Model ----
(***************************************************************************)
(* The node store of the file manager hook (src/hooks/use-file-manager.ts) *)
(* and the operations that mutate it.  Strings are sequences of            *)
(* one-character strings, so that prefix tests, lastIndexOf and substring  *)
(* are computed on characters exactly as the JavaScript does.  Every call  *)
(* runs against the state of the latest render.  An Error thrown, before   *)
(* setFiles or inside the recipe given to produce, leaves the store as it  *)
(* was: the operators below return the status and the store that results.  *)
(***************************************************************************)
EXTENDS Integers, Sequences, FiniteSets, TLC

\* ------------------------------------------------------------------ bounds
\* Largest number of calls and callbacks in a session.
MaxCalls == 4
\* Largest number of calls made before the seed timer has fired.
MaxEarlyCalls == 1
\* the calls of findChildrenRecursive the call stack holds before it overflows
MaxStack == 4

\* --------------------------------------------------------------- constants
\* parentId === null
Null == 0

Root == <<"/">>
Slash == <<"/">>
Undefined == "undefined"

\* ------------------------------------------------------------------ inputs
\* names typed by the user: "", "a", "aa" and "a/a"
Names == { <<>>, <<"a">>, <<"a", "a">>, <<"a", "/", "a">> }
\* what new Date() reads during a call
Times == {3, 4}
FileTypes == {"folder", "text"}
MimeTypes == {"image/png", "text/plain"}
UploadNames == { <<"a", "a">> }

\* src/unnamed/part_000: FileNode
FileNode(id, name, type, path, parentId, modifiedAt, size, content, url) ==
    [id |-> id, name |-> name, type |-> type, path |-> path,
     parentId |-> parentId, modifiedAt |-> modifiedAt, size |-> size,
     content |-> content, url |-> url]

\* the browser File handed to uploadFile
UploadFiles ==
    { [name |-> n, type |-> m, size |-> 1, lastModified |-> 3] :
        n \in UploadNames, m \in MimeTypes }

\* the seed list (lib/data): a folder /a holding a text file /a/a
initialFiles ==
    << FileNode(1, <<"a">>, "folder", <<"/", "a">>, Null, 3, 0,
                Undefined, Undefined),
       FileNode(2, <<"a">>, "text", <<"/", "a", "/", "a">>, 1, 3, 1,
                "x", Undefined) >>

VARIABLES
    files,        \* the Map<string, FileNode>, in insertion order
    currentPath,  \* the current directory
    isLoading,    \* TRUE until the seed timer has fired
    reads,        \* FileReader loads in flight
    last,         \* the last call and how it ended
    calls,        \* how many calls and callbacks the session has seen
    searchTerm,   \* the search box
    sortConfig,   \* the sort key and direction
    selection,    \* the Set of selected ids
    rendered,     \* the files, currentPath and selection of the latest render,
                  \* which the functions of that render have closed over
    del           \* the delete recipe, when it is followed call by call

\* the state behind the listing and the selection
view == <<searchTerm, sortConfig, selection>>

vars == <<files, currentPath, isLoading, reads, last, calls,
          searchTerm, sortConfig, selection, rendered, del>>

\* the component renders again with the state the step leaves
Rerender ==
    rendered' = [files |-> files', currentPath |-> currentPath',
                 selection |-> selection']

\* the caller makes its next call before the component has rendered again
NoRerender == rendered' = rendered

\* ------------------------------------------------------------ string helpers
\* String.prototype.startsWith
StartsWith(s, p) == Len(p) <= Len(s) /\ SubSeq(s, 1, Len(p)) = p

\* String.prototype.lastIndexOf, 0-based, -1 when absent
LastIndexOf(s, c) ==
    LET hits == { i \in 1..Len(s) : s[i] = c }
    IN IF hits = {} THEN -1 ELSE (CHOOSE i \in hits : \A j \in hits : j <= i) - 1

\* String.prototype.substring(from, to), 0-based, negative arguments count as 0
Substring(s, from, to) ==
    LET f == IF from < 0 THEN 0 ELSE from
        t == IF to < 0 THEN 0 ELSE to
    IN SubSeq(s, f + 1, t)

\* path.substring(0, path.lastIndexOf('/')) || '/'
ParentPath(path) ==
    LET pre == Substring(path, 0, LastIndexOf(path, "/"))
    IN IF pre = <<>> THEN Root ELSE pre

\* dir === '/' ? `/${name}` : `${dir}/${name}`
JoinPath(dir, name) ==
    IF dir = Root THEN Slash \o name ELSE dir \o Slash \o name

\* ------------------------------------------------------------- map helpers
Ids(fs) == { fs[i].id : i \in DOMAIN fs }

\* Map.get: the position of the node with this id, 0 when absent
MapGet(fs, id) ==
    IF \E i \in DOMAIN fs : fs[i].id = id
    THEN CHOOSE i \in DOMAIN fs : fs[i].id = id
    ELSE 0

\* Map.set: replaces the value of an existing key in place, else appends
MapSet(fs, node) ==
    LET i == MapGet(fs, node.id)
    IN IF i = 0 THEN Append(fs, node) ELSE [fs EXCEPT ![i] = node]

\* Map.delete for a set of keys
MapDelete(fs, ids) == SelectSeq(fs, LAMBDA f : f.id \notin ids)

\* findNodeByPath: the position of the first node with this path, 0 for null
findNodeByPath(fs, path) ==
    IF path = Root THEN 0
    ELSE LET hits == { i \in DOMAIN fs : fs[i].path = path }
         IN IF hits = {} THEN 0
            ELSE CHOOSE i \in hits : \A j \in hits : i <= j

\* getFileType, on the MIME types that UploadFiles draws from
getFileType(file) ==
    IF file.type = "image/png" THEN "image"
    ELSE IF file.type = "application/pdf" THEN "pdf"
    ELSE IF file.type = "text/plain" THEN "text"
    ELSE "other"

\* a call and how it ended: status is "ok", "absent" (the recipe returned
\* without doing anything) or the kind of the Error thrown; ids is the list
\* given to deleteNodes and selectRange; for changeDirectory, name and ids
\* are the search term and the selection shown when it was called, and for
\* toggleSelection ids is the selection it was applied to
Call(op, id, name, path, status) ==
    [op |-> op, id |-> id, name |-> name, path |-> path, status |-> status,
     ids |-> {}]

Result(status, fs) == [status |-> status, files |-> fs]

\* one more call or callback, within the bounds
Step ==
    /\ calls < MaxCalls
    /\ isLoading => calls < MaxEarlyCalls
    /\ calls' = calls + 1

\* ------------------------------------------------------------- operations
\* createNode with the new node left without a parent
createNode_noParent(fs, cp, now, name, type) ==
    IF name = <<>> THEN Result("ValidationError", fs)
    ELSE LET newPath == JoinPath(cp, name) IN
         IF findNodeByPath(fs, newPath) # 0 THEN Result("CollisionError", fs)
         ELSE LET newNode == FileNode(now, name, type, newPath, Null, now, 0,
                                      IF type = "text" THEN "" ELSE Undefined,
                                      Undefined)
              IN Result("ok", MapSet(fs, newNode))

\* createNode: the checks, and the store after draft.set
createNode(fs, cp, now, name, type) ==
    IF name = <<>> THEN Result("ValidationError", fs)
    ELSE LET newPath == JoinPath(cp, name) IN
         IF findNodeByPath(fs, newPath) # 0 THEN Result("CollisionError", fs)
         ELSE LET p == findNodeByPath(fs, cp)
                  newNode == FileNode(now, name, type, newPath,
                                      IF p # 0 THEN fs[p].id ELSE Null,
                                      now, 0,
                                      IF type = "text" THEN "" ELSE Undefined,
                                      Undefined)
              IN Result("ok", MapSet(fs, newNode))

\* uploadFile: the check, and the store after draft.set
uploadFile(fs, cp, now, file) ==
    LET newPath == JoinPath(cp, file.name) IN
    IF findNodeByPath(fs, newPath) # 0 THEN Result("CollisionError", fs)
    ELSE LET p == findNodeByPath(fs, cp)
             newNode == FileNode(now, file.name, getFileType(file), newPath,
                                 IF p # 0 THEN fs[p].id ELSE Null,
                                 file.lastModified, file.size,
                                 Undefined, Undefined)
         IN Result("ok", MapSet(fs, newNode))

\* FileReader.readAsDataURL of a file whose one byte is "x"
readAsDataURL(file) ==
    IF file.type = "image/png" THEN "data:image/png;base64,eA=="
    ELSE "data:text/plain;base64,eA=="

\* result.split(',')[1] ? atob(result.split(',')[1]) : ''
decode(result) ==
    IF result \in {"data:image/png;base64,eA==", "data:text/plain;base64,eA=="}
    THEN "x" ELSE ""

\* reader.onload with the result given to the newest node of the store
onload_newest(fs, read) ==
    IF fs = <<>> THEN fs
    ELSE IF read.fileType = "image" THEN [fs EXCEPT ![Len(fs)].url = read.result]
    ELSE IF read.fileType = "text"
    THEN [fs EXCEPT ![Len(fs)].content = decode(read.result)]
    ELSE fs

\* reader.onload: the recipe applied to the store
onload(fs, read) ==
    LET i == MapGet(fs, read.id) IN
    IF i = 0 THEN fs
    ELSE IF read.fileType = "image" THEN [fs EXCEPT ![i].url = read.result]
    ELSE IF read.fileType = "text"
    THEN [fs EXCEPT ![i].content = decode(read.result)]
    ELSE fs

\* the cascade loop matching on oldPath without the '/' after it
cascade_noSeparator(fs, oldPath, newPath) ==
    [ j \in DOMAIN fs |->
        IF StartsWith(fs[j].path, oldPath)
        THEN [fs[j] EXCEPT !.path =
                 newPath \o Substring(fs[j].path, Len(oldPath), Len(fs[j].path))]
        ELSE fs[j] ]

\* the cascade loop of renameNode and moveNode: every node whose path starts
\* with oldPath + '/' has that prefix replaced by newPath
cascade(fs, oldPath, newPath) ==
    [ j \in DOMAIN fs |->
        IF StartsWith(fs[j].path, oldPath \o Slash)
        THEN [fs[j] EXCEPT !.path =
                 newPath \o Substring(fs[j].path, Len(oldPath), Len(fs[j].path))]
        ELSE fs[j] ]

\* renameNode with the collision found only after the node and its
\* descendants were rewritten, and the rewritten store left in place
renameNode_partial(fs, now, id, newName) ==
    IF newName = <<>> THEN Result("ValidationError", fs)
    ELSE LET i == MapGet(fs, id) IN
         IF i = 0 THEN Result("absent", fs)
         ELSE LET node == fs[i]
                  parentPath == ParentPath(node.path)
                  newPath == JoinPath(parentPath, newName)
                  oldPath == node.path
                  renamed == [fs EXCEPT ![i].name = newName,
                                        ![i].path = newPath,
                                        ![i].modifiedAt = now]
                  done == IF node.type = "folder"
                          THEN cascade(renamed, oldPath, newPath)
                          ELSE renamed
              IN IF \E j \in DOMAIN fs : fs[j].path = newPath /\ fs[j].id # id
                 THEN Result("CollisionError", done)
                 ELSE Result("ok", done)

\* renameNode: the check before setFiles and the recipe given to produce
renameNode(fs, now, id, newName) ==
    IF newName = <<>> THEN Result("ValidationError", fs)
    ELSE LET i == MapGet(fs, id) IN
         IF i = 0 THEN Result("absent", fs)
         ELSE LET node == fs[i]
                  parentPath == ParentPath(node.path)
                  newPath == JoinPath(parentPath, newName)
              IN IF \E j \in DOMAIN fs : fs[j].path = newPath /\ fs[j].id # id
                 THEN Result("CollisionError", fs)
                 ELSE LET oldPath == node.path
                          renamed == [fs EXCEPT ![i].name = newName,
                                                ![i].path = newPath,
                                                ![i].modifiedAt = now]
                      IN Result("ok",
                                IF node.type = "folder"
                                THEN cascade(renamed, oldPath, newPath)
                                ELSE renamed)

\* findChildrenRecursive of deleteNodes: the ids it adds to nodesToDelete
RECURSIVE findChildrenRecursive(_, _, _)
findChildrenRecursive(fs, folderPath, id) ==
    LET hits == { j \in DOMAIN fs :
                    StartsWith(fs[j].path, folderPath \o Slash) /\ fs[j].id # id }
    IN { fs[j].id : j \in hits }
       \cup UNION { findChildrenRecursive(fs, fs[j].path, id) :
                      j \in { k \in hits : fs[k].type = "folder" } }

\* deleteNodes that throws when a listed id is not in the store
deleteNodes_strict(fs, ids) ==
    IF \E id \in ids : MapGet(fs, id) = 0 THEN Result("NotFoundError", fs)
    ELSE Result("ok", MapDelete(fs,
            ids \cup UNION { findChildrenRecursive(fs, fs[MapGet(fs, id)].path, id) :
                               id \in { d \in ids : fs[MapGet(fs, d)].type = "folder" } }))

\* deleteNodes that removes the listed nodes and their direct children only
deleteNodes_shallow(fs, ids) ==
    LET nodesToDelete ==
            ids \cup { fs[j].id : j \in { k \in DOMAIN fs : fs[k].parentId \in ids } }
    IN Result("ok", MapDelete(fs, nodesToDelete))

\* deleteNodes: the recipe given to produce
deleteNodes(fs, ids) ==
    LET folders == { id \in ids :
                       MapGet(fs, id) # 0 /\ fs[MapGet(fs, id)].type = "folder" }
        nodesToDelete ==
            ids \cup UNION { findChildrenRecursive(fs, fs[MapGet(fs, id)].path, id) :
                               id \in folders }
    IN Result("ok", MapDelete(fs, nodesToDelete))

\* moveNode: the recipe given to produce
moveNode(fs, now, id, newParentPath) ==
    LET i == MapGet(fs, id) IN
    IF i = 0 THEN Result("absent", fs)
    ELSE LET node == fs[i]
             p == findNodeByPath(fs, newParentPath)
         IN IF newParentPath # Root /\ p = 0 THEN Result("NotFoundError", fs)
            ELSE IF node.type = "folder" /\ StartsWith(newParentPath, node.path)
            THEN Result("CyclicMoveError", fs)
            ELSE LET newPath == JoinPath(newParentPath, node.name) IN
                 IF findNodeByPath(fs, newPath) # 0 THEN Result("CollisionError", fs)
                 ELSE LET oldPath == node.path
                          moved == [fs EXCEPT ![i].path = newPath,
                                              ![i].parentId =
                                                  IF p # 0 THEN fs[p].id ELSE Null,
                                              ![i].modifiedAt = now]
                      IN Result("ok",
                                IF node.type = "folder"
                                THEN cascade(moved, oldPath, newPath)
                                ELSE moved)

\* currentFiles, first step: the nodes whose path up to the last '/' is the
\* current directory, in store order
filesInCurrentDir(fs, cp) ==
    SelectSeq(fs, LAMBDA file : ParentPath(file.path) = cp)

\* currentFiles of the array-based variant, first step: the nodes whose
\* parentId is the id of the node found at the current directory, or null
filesInCurrentDirByParentId(fs, cp) ==
    LET p == findNodeByPath(fs, cp)
        parentId == IF p # 0 THEN fs[p].id ELSE Null
    IN SelectSeq(fs, LAMBDA file : file.parentId = parentId)

\* String.prototype.toLowerCase, on the letters that names are made of
toLowerCase(str) ==
    [ k \in DOMAIN str |-> IF str[k] = "A" THEN "a"
                           ELSE IF str[k] = "B" THEN "b" ELSE str[k] ]

\* String.prototype.includes
includes(str, part) ==
    \E k \in 0..(Len(str) - Len(part)) : SubSeq(str, k + 1, k + Len(part)) = part

\* the collation weights that localeCompare looks at: the letter, with
\* punctuation before letters, and then the case, lower before upper
LetterWeight(c) == IF c = "/" THEN 0 ELSE IF c \in {"a", "A"} THEN 1 ELSE 2
CaseWeight(c) == IF c \in {"A", "B"} THEN 1 ELSE 0
Weight(level, c) == IF level = "letter" THEN LetterWeight(c) ELSE CaseWeight(c)

\* the first difference of two strings at a level of weights, as -1, 0 or 1
RECURSIVE CompareBy(_, _, _)
CompareBy(level, x, y) ==
    IF x = <<>> THEN (IF y = <<>> THEN 0 ELSE -1)
    ELSE IF y = <<>> THEN 1
    ELSE IF Weight(level, Head(x)) < Weight(level, Head(y)) THEN -1
    ELSE IF Weight(level, Head(x)) > Weight(level, Head(y)) THEN 1
    ELSE CompareBy(level, Tail(x), Tail(y))

\* String.prototype.localeCompare: letters decide first, over the whole
\* string, and case only between strings with the same letters
localeCompare(x, y) ==
    IF CompareBy("letter", x, y) # 0 THEN CompareBy("letter", x, y)
    ELSE CompareBy("case", x, y)

\* the comparator given to sort; modifiedAt is the clock reading that the ISO
\* string spells, and ISO strings compare as their readings do
compare(a, b, cfg) ==
    IF a.type = "folder" /\ b.type # "folder" THEN -1
    ELSE IF a.type # "folder" /\ b.type = "folder" THEN 1
    ELSE LET comparison ==
                 IF cfg.key = "name" THEN localeCompare(a.name, b.name)
                 ELSE IF cfg.key = "modifiedAt" THEN a.modifiedAt - b.modifiedAt
                 ELSE IF cfg.key = "size" THEN a.size - b.size
                 ELSE 0
         IN IF cfg.direction = "ascending" THEN comparison ELSE 0 - comparison

\* Array.prototype.sort, which is stable: each element goes behind every
\* element already placed that the comparator does not put after it
RECURSIVE sort(_, _)
sort(list, cfg) ==
    IF list = <<>> THEN <<>>
    ELSE LET done == sort(SubSeq(list, 1, Len(list) - 1), cfg)
             x == list[Len(list)]
             after == { k \in DOMAIN done : compare(done[k], x, cfg) > 0 }
             at == IF after = {} THEN Len(done) + 1
                   ELSE CHOOSE k \in after : \A j \in after : k <= j
         IN SubSeq(done, 1, at - 1) \o <<x>> \o SubSeq(done, at, Len(done))

\* currentFiles with the search comparing the letters as typed
currentFiles_caseSensitive(fs, cp, term, cfg) ==
    LET inDir == filesInCurrentDir(fs, cp)
        filtered == IF term # <<>>
                    THEN SelectSeq(inDir, LAMBDA f : includes(f.name, term))
                    ELSE inDir
    IN sort(filtered, cfg)

\* currentFiles with the descending order made by reversing the ascending one
currentFiles_reversed(fs, cp, term, cfg) ==
    LET inDir == filesInCurrentDir(fs, cp)
        filtered == IF term # <<>>
                    THEN SelectSeq(inDir, LAMBDA f :
                             includes(toLowerCase(f.name), toLowerCase(term)))
                    ELSE inDir
        up == sort(filtered, [cfg EXCEPT !.direction = "ascending"])
    IN IF cfg.direction = "ascending" THEN up
       ELSE [ k \in DOMAIN up |-> up[Len(up) + 1 - k] ]

\* currentFiles: membership, search filter, sort
currentFiles(fs, cp, term, cfg) ==
    LET inDir == filesInCurrentDir(fs, cp)
        filtered == IF term # <<>>
                    THEN SelectSeq(inDir, LAMBDA f :
                             includes(toLowerCase(f.name), toLowerCase(term)))
                    ELSE inDir
    IN sort(filtered, cfg)

\* ------------------------------------------------------------ input ranges
\* ids a caller may pass: every id a node of the store has or had, and one
\* that no node ever has
IdInputs == Ids(initialFiles) \cup Times \cup {99}

\* paths a caller may pass: the root, every path in the store, and the path
\* /aa, whether a node has it or not
PathInputs ==
    {Root} \cup { files[i].path : i \in DOMAIN files } \cup { <<"/", "a", "a">> }

\* what the user may type into the search box: "", "a", "B" and "aB"
Terms == { <<>>, <<"a">>, <<"B">>, <<"a", "B">> }

\* the columns the listing can be sorted by, and the two directions
SortConfigs ==
    [ key : {"name", "modifiedAt", "size"},
      direction : {"ascending", "descending"} ]

\* useState<Set<string>>(new Set()): the selection of the first render, the
\* one that the clearSelection captured by deleteNodes reads
selectionAtMount == {}

\* clearSelection that tests the selection and then leaves it as it is
clearSelection_keep(sel, cur) == IF Cardinality(sel) > 0 THEN cur ELSE cur

\* clearSelection as written in a render whose selection is sel, applied to
\* the current selection cur
clearSelection(sel, cur) == IF Cardinality(sel) > 0 THEN {} ELSE cur

\* the delete recipe before it is called
Idle ==
    [pc |-> "idle", variant |-> "none", root |-> Null, pending |-> <<>>,
     stack |-> <<>>, nodesToDelete |-> {}, calls |-> 0, before |-> <<>>]

\* ------------------------------------------------------------------- Init
Init ==
    /\ files = <<>>
    /\ currentPath = Root
    /\ isLoading = TRUE
    /\ reads = {}
    /\ last = Call("init", Null, <<>>, <<>>, "ok")
    /\ calls = 0
    /\ searchTerm = <<>>
    /\ sortConfig = [key |-> "name", direction |-> "ascending"]
    /\ selection = selectionAtMount
    /\ rendered = [files |-> files, currentPath |-> currentPath,
                   selection |-> selection]
    /\ del = Idle

\* the seed timer of the first effect
LoadSeed ==
    /\ isLoading
    /\ calls < MaxCalls
    /\ calls' = calls + 1
    /\ files' = initialFiles
    /\ isLoading' = FALSE
    /\ last' = Call("loadSeed", Null, <<>>, <<>>, "ok")
    /\ UNCHANGED <<currentPath, reads, view, del>>
    /\ Rerender

\* changeDirectory(path), and the effect on [currentPath] that the next
\* render runs when the path has changed
ChangeDirectory(path) ==
    /\ Step
    /\ searchTerm' = <<>>
    /\ currentPath' = path
    /\ selection' = IF path # currentPath
                    THEN clearSelection(selection, selection) ELSE selection
    /\ last' = [Call("changeDirectory", Null, searchTerm, path, "ok")
                    EXCEPT !.ids = selection]
    /\ UNCHANGED <<files, isLoading, reads, sortConfig, del>>
    /\ Rerender

\* createNode(name, type): the checks and the new node come from the files
\* and currentPath of the render, the recipe sets the node in the latest store
CreateNodeCall(name, type, now) ==
    LET r == createNode(rendered.files, rendered.currentPath, now, name, type) IN
    /\ Step
    /\ files' = IF r.status = "ok"
                THEN MapSet(files, r.files[MapGet(r.files, now)]) ELSE files
    /\ last' = Call("createNode", IF r.status = "ok" THEN now ELSE Null, name,
                    <<>>, r.status)
    /\ UNCHANGED <<currentPath, isLoading, reads, view, del>>

CreateNode(name, type, now) == CreateNodeCall(name, type, now) /\ Rerender

CreateNodeBatched(name, type, now) == CreateNodeCall(name, type, now) /\ NoRerender

\* uploadFile(file): the node is set, and a read is started for image and text
UploadFileCall(file, now) ==
    LET r == uploadFile(rendered.files, rendered.currentPath, now, file)
        fileType == getFileType(file)
    IN
    /\ Step
    /\ files' = IF r.status = "ok"
                THEN MapSet(files, r.files[MapGet(r.files, now)]) ELSE files
    /\ reads' = IF r.status = "ok" /\ fileType \in {"image", "text"}
                THEN reads \cup {[id |-> now, fileType |-> fileType,
                                    result |-> readAsDataURL(file)]}
                ELSE reads
    /\ last' = Call("uploadFile", IF r.status = "ok" THEN now ELSE Null, file.name,
                    <<>>, r.status)
    /\ UNCHANGED <<currentPath, isLoading, view, del>>

UploadFile(file, now) == UploadFileCall(file, now) /\ Rerender

UploadFileBatched(file, now) == UploadFileCall(file, now) /\ NoRerender

\* reader.onload fires for a read in flight
ReaderOnload(read) ==
    /\ Step
    /\ read \in reads
    /\ files' = onload(files, read)
    /\ reads' = reads \ {read}
    /\ last' = Call("onload", read.id, <<>>, <<>>, "ok")
    /\ UNCHANGED <<currentPath, isLoading, view, del>>
    /\ Rerender

\* renameNode(id, newName)
RenameNode(id, newName, now) ==
    LET r == renameNode(files, now, id, newName) IN
    /\ Step
    /\ files' = r.files
    /\ last' = Call("renameNode", id, newName, <<>>, r.status)
    /\ UNCHANGED <<currentPath, isLoading, reads, view, del>>
    /\ Rerender

\* deleteNodes(ids): the callback is memoised with no dependencies, so the
\* clearSelection it calls is the one of the first render
DeleteNodes(ids) ==
    LET r == deleteNodes(files, ids) IN
    /\ Step
    /\ files' = r.files
    /\ selection' = clearSelection(selectionAtMount, selection)
    /\ last' = [Call("deleteNodes", Null, <<>>, <<>>, r.status) EXCEPT !.ids = ids]
    /\ UNCHANGED <<currentPath, isLoading, reads, searchTerm, sortConfig, del>>
    /\ Rerender

\* moveNode(id, newParentPath)
MoveNode(id, newParentPath, now) ==
    LET r == moveNode(files, now, id, newParentPath) IN
    /\ Step
    /\ files' = r.files
    /\ last' = Call("moveNode", id, <<>>, newParentPath, r.status)
    /\ UNCHANGED <<currentPath, isLoading, reads, view, del>>
    /\ Rerender

\* search(term)
Search(term) ==
    /\ searchTerm' = term
    /\ last' = Call("search", Null, term, <<>>, "ok")
    /\ UNCHANGED <<files, currentPath, isLoading, reads, calls, sortConfig, selection, del>>
    /\ Rerender

\* setSortConfig(cfg)
SetSortConfig(cfg) ==
    /\ sortConfig' = cfg
    /\ last' = Call("setSortConfig", Null, <<>>, <<>>, "ok")
    /\ UNCHANGED <<files, currentPath, isLoading, reads, calls, searchTerm, selection, del>>
    /\ Rerender

\* toggleSelection computed from the selection of the render
toggleSelection_fromRender(draft, id) ==
    IF id \in rendered.selection THEN rendered.selection \ {id}
    ELSE rendered.selection \cup {id}

\* the recipe of toggleSelection, applied to the selection it is given
toggleSelection(draft, id) ==
    IF id \in draft THEN draft \ {id} ELSE draft \cup {id}

\* toggleSelection(id): the recipe runs on the latest selection
ToggleSelectionCall(id) ==
    /\ Step
    /\ selection' = toggleSelection(selection, id)
    /\ last' = [Call("toggleSelection", id, <<>>, <<>>, "ok")
                    EXCEPT !.ids = selection]
    /\ UNCHANGED <<files, currentPath, isLoading, reads, searchTerm, sortConfig, del>>

ToggleSelection(id) == ToggleSelectionCall(id) /\ Rerender

ToggleSelectionBatched(id) == ToggleSelectionCall(id) /\ NoRerender

\* selectRange(ids)
SelectRange(ids) ==
    /\ Step
    /\ selection' = selection \cup ids
    /\ last' = [Call("selectRange", Null, <<>>, <<>>, "ok") EXCEPT !.ids = ids]
    /\ UNCHANGED <<files, currentPath, isLoading, reads, searchTerm, sortConfig, del>>
    /\ Rerender

\* clearSelection(): the size tested is that of the render's selection
ClearSelectionCall ==
    /\ Step
    /\ selection' = clearSelection(rendered.selection, selection)
    /\ last' = Call("clearSelection", Null, <<>>, <<>>, "ok")
    /\ UNCHANGED <<files, currentPath, isLoading, reads, searchTerm, sortConfig, del>>

ClearSelection == ClearSelectionCall /\ Rerender

ClearSelectionBatched == ClearSelectionCall /\ NoRerender

Next ==
    \/ LoadSeed
    \/ \E path \in PathInputs : ChangeDirectory(path)
    \/ \E name \in Names, type \in FileTypes, now \in Times :
          CreateNode(name, type, now)
    \/ \E file \in UploadFiles, now \in Times : UploadFile(file, now)
    \/ \E read \in reads : ReaderOnload(read)
    \/ \E id \in IdInputs, newName \in Names, now \in Times :
          RenameNode(id, newName, now)
    \/ \E ids \in SUBSET IdInputs : DeleteNodes(ids)
    \/ \E id \in IdInputs, path \in PathInputs, now \in Times :
          MoveNode(id, path, now)

Spec == Init /\ [][Next]_vars

\* ----------------------------------------------------------- the selection
\* a session of selecting, deleting and changing directory
NextSelection ==
    \/ LoadSeed
    \/ \E id \in IdInputs : ToggleSelection(id)
    \/ \E ids \in SUBSET IdInputs : SelectRange(ids)
    \/ ClearSelection
    \/ \E ids \in SUBSET IdInputs : DeleteNodes(ids)
    \/ \E path \in PathInputs : ChangeDirectory(path)
    \/ \E term \in Terms : Search(term)

SpecSelection == Init /\ [][NextSelection]_vars

\* ------------------------------------------------------ calls in one handler
\* a session in which a caller may make several calls from one handler, the
\* later ones running before the component has rendered again
NextBatch ==
    \/ LoadSeed
    \/ \E name \in Names, type \in FileTypes, now \in Times :
          CreateNode(name, type, now) \/ CreateNodeBatched(name, type, now)
    \/ \E file \in UploadFiles, now \in Times :
          UploadFile(file, now) \/ UploadFileBatched(file, now)
    \/ \E read \in reads : ReaderOnload(read)
    \/ \E id \in IdInputs : ToggleSelection(id) \/ ToggleSelectionBatched(id)
    \/ ClearSelection \/ ClearSelectionBatched
    \/ \E ids \in SUBSET IdInputs : DeleteNodes(ids)

SpecBatch == Init /\ [][NextBatch]_vars

\* ------------------------------------------------------------- the listing
\* a node as createNode or uploadFile leaves it in directory dir, the seed
\* folder /a being the parent of what is put in /a
ViewNode(id, name, type, dir, modifiedAt, size) ==
    FileNode(id, name, type, JoinPath(dir, name),
             IF dir = Root THEN Null ELSE initialFiles[1].id,
             modifiedAt, IF type = "folder" THEN 0 ELSE size,
             IF type = "text" THEN "" ELSE Undefined, Undefined)

ViewNames == { <<"A", "b">>, <<"B">>, <<"b">> }

\* stores to list: the seed folder /a and three nodes added after it in any
\* order of names, the last of them at the root or in /a
ViewStores ==
    { << initialFiles[1],
         ViewNode(5, n[1], t[1], Root, m[1], z[1]),
         ViewNode(6, n[2], t[2], Root, m[2], z[2]),
         ViewNode(7, n[3], t[3], d, m[3], z[3]) >> :
        n \in { q \in [1..3 -> ViewNames] : Cardinality({q[1], q[2], q[3]}) = 3 },
        t \in [1..3 -> FileTypes],
        m \in [1..3 -> Times],
        z \in [1..3 -> {0, 1}],
        d \in { Root, initialFiles[1].path } }

InitView ==
    /\ files \in ViewStores
    /\ currentPath \in { Root, initialFiles[1].path }
    /\ isLoading = FALSE
    /\ reads = {}
    /\ last = Call("init", Null, <<>>, <<>>, "ok")
    /\ calls = 0
    /\ searchTerm = <<>>
    /\ sortConfig = [key |-> "name", direction |-> "ascending"]
    /\ selection = selectionAtMount
    /\ rendered = [files |-> files, currentPath |-> currentPath,
                   selection |-> selection]
    /\ del = Idle

NextView ==
    \/ \E term \in Terms : Search(term)
    \/ \E cfg \in SortConfigs : SetSortConfig(cfg)

SpecView == InitView /\ [][NextView]_vars

\* ---------------------------------------------------- the delete recipes
\* The recipes of deleteNodes (use-file-manager.ts) and of deleteNode (the
\* Map-based single-delete variant) followed call by call: del.stack holds the
\* calls of findChildrenRecursive in progress, each with its folderPath and the
\* position its loop over draft.values() has reached.

\* the test of findChildrenRecursive in deleteNodes, for the id being expanded
matchesDeleteNodes_noSeparator(file, folderPath, id) ==
    StartsWith(file.path, folderPath) /\ file.id # id

matchesDeleteNodes(file, folderPath, id) ==
    StartsWith(file.path, folderPath \o Slash) /\ file.id # id

\* the test of findChildrenRecursive in deleteNode, node being the node deleted
matchesDeleteNode(file, folderPath, node) ==
    file.parentId = node.id \/ StartsWith(file.path, folderPath \o Slash)

\* a node as createNode leaves it
Created(id, name, type, path, parentId) ==
    FileNode(id, name, type, path, parentId, id, 0,
             IF type = "text" THEN "" ELSE Undefined, Undefined)

\* stores to delete from: the seed; the seed with a folder /a/aa holding a
\* folder /a/aa/a; the seed with a folder /aa at the root holding a file; the
\* seed with a file /a/aa and a folder /aa; the seed with a folder /a/aa
\* holding a file
DeleteStores ==
    { initialFiles,
      initialFiles \o
        << Created(3, <<"a", "a">>, "folder", <<"/", "a", "/", "a", "a">>, 1),
           Created(4, <<"a">>, "folder",
                   <<"/", "a", "/", "a", "a", "/", "a">>, 3) >>,
      initialFiles \o
        << Created(3, <<"a", "a">>, "folder", <<"/", "a", "a">>, Null),
           Created(4, <<"a">>, "text", <<"/", "a", "a", "/", "a">>, 3) >>,
      initialFiles \o
        << Created(3, <<"a", "a">>, "text", <<"/", "a", "/", "a", "a">>, 1),
           Created(4, <<"a", "a">>, "folder", <<"/", "a", "a">>, Null) >>,
      initialFiles \o
        << Created(3, <<"a", "a">>, "folder", <<"/", "a", "/", "a", "a">>, 1),
           Created(4, <<"a">>, "text",
                   <<"/", "a", "/", "a", "a", "/", "a">>, 3) >> }

\* the lists of ids handed to deleteNodes: at most two ids, none twice
IdLists ==
    { <<>> } \cup { <<a>> : a \in IdInputs }
             \cup { <<p[1], p[2]>> :
                       p \in { q \in IdInputs \X IdInputs : q[1] # q[2] } }

Frame(folderPath) == [path |-> folderPath, i |-> 1]

\* deleteNodes(ids) enters its recipe: nodesToDelete = new Set(ids)
DeleteNodesBegin(ids) ==
    /\ del.pc = "idle"
    /\ del' = [Idle EXCEPT !.pc = "run", !.variant = "deleteNodes",
                           !.pending = ids,
                           !.nodesToDelete = { ids[k] : k \in DOMAIN ids },
                           !.before = files]
    /\ UNCHANGED <<files, currentPath, isLoading, reads, last, calls, view>>
    /\ NoRerender

\* deleteNode(id) enters its recipe, which returns at once when the id is not
\* in the store and calls findChildrenRecursive(node.path) for a folder
DeleteNodeBegin(id) ==
    LET i == MapGet(files, id) IN
    /\ del.pc = "idle"
    /\ del' = IF i = 0
              THEN [Idle EXCEPT !.pc = "done", !.variant = "deleteNode",
                                !.root = id, !.before = files]
              ELSE [Idle EXCEPT !.pc = "run", !.variant = "deleteNode",
                                !.root = id, !.before = files,
                                !.nodesToDelete = {id},
                                !.stack = IF files[i].type = "folder"
                                          THEN <<Frame(files[i].path)>>
                                          ELSE <<>>,
                                !.calls = IF files[i].type = "folder"
                                          THEN 1 ELSE 0]
    /\ UNCHANGED <<files, currentPath, isLoading, reads, last, calls, view>>
    /\ NoRerender

\* ids.forEach of deleteNodes: the next id, expanded when it is a folder of
\* the store
ForEachId ==
    LET id == Head(del.pending)
        i == MapGet(files, id)
    IN
    /\ del.pc = "run"
    /\ del.variant = "deleteNodes"
    /\ del.stack = <<>>
    /\ del.pending # <<>>
    /\ del' = IF i = 0 \/ files[i].type # "folder"
              THEN [del EXCEPT !.pending = Tail(del.pending)]
              ELSE [del EXCEPT !.pending = Tail(del.pending), !.root = id,
                               !.stack = <<Frame(files[i].path)>>,
                               !.calls = del.calls + 1]
    /\ UNCHANGED <<files, currentPath, isLoading, reads, last, calls, view>>
    /\ NoRerender

\* one iteration of the loop of the innermost findChildrenRecursive: a file
\* that matches is added to nodesToDelete, and a matching folder is descended
\* into, which overflows the call stack when MaxStack calls are in progress
Scan ==
    LET depth == Len(del.stack)
        top == del.stack[depth]
        file == files[top.i]
        hit == IF del.variant = "deleteNodes"
               THEN matchesDeleteNodes(file, top.path, del.root)
               ELSE matchesDeleteNode(file, top.path,
                                      files[MapGet(files, del.root)])
        advanced == [del.stack EXCEPT ![depth].i = top.i + 1]
    IN
    /\ del.pc = "run"
    /\ del.stack # <<>>
    /\ top.i <= Len(files)
    /\ del' = IF ~hit THEN [del EXCEPT !.stack = advanced]
              ELSE IF file.type # "folder"
              THEN [del EXCEPT !.stack = advanced,
                               !.nodesToDelete = @ \cup {file.id}]
              ELSE IF depth = MaxStack
              THEN [del EXCEPT !.pc = "RangeError",
                               !.nodesToDelete = @ \cup {file.id}]
              ELSE [del EXCEPT !.stack = Append(advanced, Frame(file.path)),
                               !.nodesToDelete = @ \cup {file.id},
                               !.calls = del.calls + 1]
    /\ UNCHANGED <<files, currentPath, isLoading, reads, last, calls, view>>
    /\ NoRerender

\* the loop of the innermost findChildrenRecursive is over: the call returns
Return ==
    LET depth == Len(del.stack) IN
    /\ del.pc = "run"
    /\ del.stack # <<>>
    /\ del.stack[depth].i > Len(files)
    /\ del' = [del EXCEPT !.stack = SubSeq(del.stack, 1, depth - 1)]
    /\ UNCHANGED <<files, currentPath, isLoading, reads, last, calls, view>>
    /\ NoRerender

\* nodesToDelete.forEach(deleteId => draft.delete(deleteId)), the store
\* replaced, and for deleteNodes the clearSelection of the first render
DeleteFinish ==
    /\ del.pc = "run"
    /\ del.stack = <<>>
    /\ del.pending = <<>>
    /\ del' = [del EXCEPT !.pc = "done"]
    /\ files' = MapDelete(files, del.nodesToDelete)
    /\ selection' = IF del.variant = "deleteNodes"
                    THEN clearSelection(selectionAtMount, selection)
                    ELSE selection
    /\ last' = [Call(del.variant, del.root, <<>>, <<>>, "ok")
                    EXCEPT !.ids = del.nodesToDelete]
    /\ UNCHANGED <<currentPath, isLoading, reads, calls, searchTerm, sortConfig>>
    /\ Rerender

InitDelete ==
    /\ files \in DeleteStores
    /\ currentPath = Root
    /\ isLoading = FALSE
    /\ reads = {}
    /\ last = Call("init", Null, <<>>, <<>>, "ok")
    /\ calls = 0
    /\ searchTerm = <<>>
    /\ sortConfig = [key |-> "name", direction |-> "ascending"]
    /\ selection = selectionAtMount
    /\ rendered = [files |-> files, currentPath |-> currentPath,
                   selection |-> selection]
    /\ del = Idle

NextDeleteNodes ==
    \/ \E ids \in IdLists : DeleteNodesBegin(ids)
    \/ ForEachId
    \/ Scan
    \/ Return
    \/ DeleteFinish

\* the recipe of deleteNodes is synchronous code: once called it runs on
SpecDeleteNodes ==
    InitDelete /\ [][NextDeleteNodes]_vars /\ WF_vars(NextDeleteNodes)

NextDeleteNode ==
    \/ \E id \in IdInputs : DeleteNodeBegin(id)
    \/ Scan
    \/ Return
    \/ DeleteFinish

\* the recipe of deleteNode is synchronous code: once called it runs on
SpecDeleteNode ==
    InitDelete /\ [][NextDeleteNode]_vars /\ WF_vars(NextDeleteNode)

\* ------------------------------------------------------------- properties
\* the position of the node the last call named, 0 when it is not in the store
LastNode == MapGet(files, last.id)

\* the number of segments of an absolute path: its '/' characters
Segments(path) == Cardinality({ i \in 1..Len(path) : path[i] = "/" })

\* the ids reached from id by following parentId upwards at most k times
RECURSIVE Ancestors(_, _, _)
Ancestors(fs, id, k) ==
    LET i == MapGet(fs, id) IN
    IF i = 0 \/ k = 0 \/ fs[i].parentId = Null THEN {}
    ELSE {fs[i].parentId} \cup Ancestors(fs, fs[i].parentId, k - 1)

\* descendants of the folder at position f, by path prefix
PathDescendants(fs, f) ==
    { fs[j].id : j \in { k \in DOMAIN fs : StartsWith(fs[k].path, fs[f].path \o Slash) } }

\* descendants of the folder at position f, by parentId links
LinkDescendants(fs, f) ==
    { fs[j].id : j \in { k \in DOMAIN fs : fs[f].id \in Ancestors(fs, fs[k].id, Len(fs)) } }

Errors == {"ValidationError", "CollisionError", "NotFoundError", "CyclicMoveError"}

\* C1: no two nodes of the store have the same path.
C1_PathUnique ==
    \A i, j \in DOMAIN files : i # j => files[i].path # files[j].path

\* C2: every node's path is "/" + name when parentId is null, and the
\* parent's path + "/" + name otherwise, the parent being in the store.
C2_PathMatchesAncestry ==
    \A i \in DOMAIN files :
        LET n == files[i]
            p == MapGet(files, n.parentId)
        IN IF n.parentId = Null THEN n.path = Slash \o n.name
           ELSE p # 0 /\ n.path = files[p].path \o Slash \o n.name

\* C3: parentId is null exactly when the path has one segment.
C3_NullParentIffOneSegment ==
    \A i \in DOMAIN files :
        (files[i].parentId = Null) <=> (Segments(files[i].path) = 1)

\* C4: for every folder, the descendants by path prefix are the descendants
\* by parentId links.
C4_DescendantsAgree ==
    \A f \in DOMAIN files :
        files[f].type = "folder" =>
            PathDescendants(files, f) = LinkDescendants(files, f)

\* C5: no node is its own parent or ancestor.
C5_Acyclic ==
    \A i \in DOMAIN files :
        files[i].id \notin Ancestors(files, files[i].id, Len(files))

\* C6: a createNode, uploadFile, renameNode or moveNode that throws leaves
\* the store exactly as it was.
C6_FailureLeavesStore ==
    [][ (last'.op \in {"createNode", "uploadFile", "renameNode", "moveNode"}
            /\ last'.status \in Errors)
        => files' = files ]_vars

\* a renameNode of a folder that holds a node has thrown on a collision
C6_Witness ==
    /\ last.op = "renameNode"
    /\ last.status = "CollisionError"
    /\ LastNode # 0
    /\ files[LastNode].type = "folder"
    /\ PathDescendants(files, LastNode) # {}

\* C7: after a successful renameNode of a folder with path P, the node has
\* name newName and path P' (the parent path of P joined with newName), and
\* every node whose path was P + "/" + s has path P' + "/" + s.
C7_RenameCascade ==
    [][ (last'.op = "renameNode" /\ last'.status = "ok"
            /\ files[MapGet(files, last'.id)].type = "folder")
        => LET i == MapGet(files, last'.id)
               P == files[i].path
               P2 == JoinPath(ParentPath(P), last'.name)
           IN /\ files'[i].name = last'.name
              /\ files'[i].path = P2
              /\ \A j \in DOMAIN files :
                    StartsWith(files[j].path, P \o Slash)
                    => files'[j].path =
                          P2 \o Substring(files[j].path, Len(P), Len(files[j].path))
      ]_vars

\* C8: after a successful moveNode(id, D) the node's path is D joined with
\* its name, its parentId is the id of the node at D (null for "/"), and
\* every node whose path was oldPath + "/" + s has path newPath + "/" + s.
C8_MovePostcondition ==
    [][ (last'.op = "moveNode" /\ last'.status = "ok")
        => LET i == MapGet(files, last'.id)
               D == last'.path
               d == findNodeByPath(files, D)
               oldPath == files[i].path
               newPath == JoinPath(D, files[i].name)
           IN /\ files'[i].path = newPath
              /\ files'[i].parentId = (IF D = Root THEN Null ELSE files[d].id)
              /\ \A j \in DOMAIN files :
                    StartsWith(files[j].path, oldPath \o Slash)
                    => files'[j].path =
                          newPath \o Substring(files[j].path, Len(oldPath),
                                               Len(files[j].path))
      ]_vars

\* C9: a moveNode(id, D) of a folder with path P to a destination that is
\* "/" or in the store is rejected as cyclic exactly when D = P or D starts
\* with P + "/".
C9_CyclicIffSeparatorPrefix ==
    [][ (last'.op = "moveNode" /\ MapGet(files, last'.id) # 0
            /\ files[MapGet(files, last'.id)].type = "folder"
            /\ (last'.path = Root \/ findNodeByPath(files, last'.path) # 0))
        => LET P == files[MapGet(files, last'.id)].path
               D == last'.path
           IN (last'.status = "CyclicMoveError")
                 <=> (D = P \/ StartsWith(D, P \o Slash))
      ]_vars

\* C10: a moveNode(id, D) of a node of the store fails and leaves the store
\* unchanged whenever D is not "/" and no folder has path D.
C10_MoveNeedsFolder ==
    [][ (last'.op = "moveNode" /\ MapGet(files, last'.id) # 0
            /\ last'.path # Root
            /\ ~ \E j \in DOMAIN files :
                    files[j].path = last'.path /\ files[j].type = "folder")
        => (last'.status \in Errors /\ files' = files)
      ]_vars

\* C11: a renameNode or moveNode called with an id that is not in the store
\* ends in a failure signalled to the caller, and the store is unchanged.
C11_AbsentIdFails ==
    [][ (last'.op \in {"renameNode", "moveNode"} /\ MapGet(files, last'.id) = 0)
        => (last'.status \in Errors /\ files' = files) ]_vars

\* the path the last call of the step computes as its target, <<>> when the
\* call names a node that is not in the store
TargetPath ==
    LET i == MapGet(files, last'.id) IN
    IF last'.op \in {"createNode", "uploadFile"}
    THEN JoinPath(currentPath, last'.name)
    ELSE IF i = 0 THEN <<>>
    ELSE IF last'.op = "renameNode"
    THEN JoinPath(ParentPath(files[i].path), last'.name)
    ELSE JoinPath(last'.path, files[i].name)

\* a node other than the one the call names has the target path
TargetTaken ==
    \E j \in DOMAIN files :
        files[j].path = TargetPath /\ files[j].id # last'.id

CollisionRejected ==
    (last'.op \in {"createNode", "uploadFile", "renameNode", "moveNode"}
        /\ TargetTaken)
    => (last'.status \in Errors /\ files' = files)

RenameToOwnName ==
    (last'.op = "renameNode" /\ MapGet(files, last'.id) # 0
        /\ last'.name = files[MapGet(files, last'.id)].name)
    => (last'.status = "ok"
        /\ \A j \in DOMAIN files : files'[j].path = files[j].path)

\* C12: createNode, uploadFile, renameNode and moveNode fail and leave the
\* store unchanged whenever the target path is the path of another node;
\* renameNode to the node's own name succeeds with every path unchanged.
C12_CollisionRejected ==
    [][ CollisionRejected /\ RenameToOwnName ]_vars

DeleteClosure(fs, ids) ==
    { j \in DOMAIN fs :
        \/ fs[j].id \in ids
        \/ \E f \in DOMAIN fs :
              /\ fs[f].id \in ids
              /\ fs[f].type = "folder"
              /\ StartsWith(fs[j].path, fs[f].path \o Slash) }

\* C14: deleteNodes(ids) removes, in one store update, exactly the nodes named
\* in ids and the nodes under the folders named in ids; every other node stays
\* in the store unchanged.
C14_DeleteClosure ==
    [][ last'.op = "deleteNodes"
        => LET gone == DeleteClosure(files, last'.ids)
           IN /\ Len(files') = Len(files) - Cardinality(gone)
              /\ { files'[k] : k \in DOMAIN files' }
                    = { files[j] : j \in DOMAIN files \ gone }
      ]_vars

\* deleteNodes of the seed folder alone has removed it and the node under it,
\* and has kept a node that was not named
C14_Witness ==
    /\ last.op = "deleteNodes"
    /\ last.ids = {1}
    /\ Len(files) = 1
    /\ files[1].id \notin {1, 2}

\* C15: deleteNodes(ids) never fails; when no listed id is in the store (the
\* empty list included) the store is unchanged; and a deleteNodes(ids) that
\* directly follows a deleteNodes of the same ids leaves the store as the
\* first call left it.
C15_DeleteTolerant ==
    [][ last'.op = "deleteNodes"
        => /\ last'.status = "ok"
           /\ (last'.ids \cap Ids(files) = {}) => files' = files
           /\ (last.op = "deleteNodes" /\ last.ids = last'.ids) => files' = files
      ]_vars

\* deleteNodes has returned for a list that names a seed node and an id that
\* no node ever had, other nodes staying in the store
C15_Witness ==
    /\ last.op = "deleteNodes"
    /\ last.status = "ok"
    /\ {1, 99} \subseteq last.ids
    /\ ~isLoading
    /\ calls >= 3
    /\ files # <<>>

\* C16: when moveNode(id, X) succeeds from a store in which the node's parent
\* path is O, a moveNode(id, O) made next succeeds, and the node and each of
\* its descendants then have the path and the parentId they had before the
\* first move.
C16_MoveRoundTrip ==
    [][ (last'.op = "moveNode" /\ last'.status = "ok")
        => LET i == MapGet(files, last'.id)
               O == ParentPath(files[i].path)
               sub == {files[i].id} \cup PathDescendants(files, i)
                         \cup LinkDescendants(files, i)
           IN \A now \in Times :
                 LET back == moveNode(files', now, last'.id, O)
                 IN /\ back.status = "ok"
                    /\ \A id \in sub :
                          LET a == files[MapGet(files, id)]
                              b == back.files[MapGet(back.files, id)]
                          IN a.path = b.path /\ a.parentId = b.parentId
      ]_vars

\* C17: in every reachable state the nodes listed for the current directory
\* by parent path are the nodes listed for it by parentId.
C17_MembershipAgrees ==
    LET byPath == filesInCurrentDir(files, currentPath)
        byParentId == filesInCurrentDirByParentId(files, currentPath)
    IN { byPath[k].id : k \in DOMAIN byPath }
          = { byParentId[k].id : k \in DOMAIN byParentId }

\* the listing shown in the current state
Listing == currentFiles(files, currentPath, searchTerm, sortConfig)

\* the nodes of the current directory
Members == { files[j] : j \in { k \in DOMAIN files :
                                   ParentPath(files[k].path) = currentPath } }

\* two characters are the same letter, whatever their case
SameLetter(c, d) == c = d \/ {c, d} = {"a", "A"} \/ {c, d} = {"b", "B"}

\* name contains term as a substring, ignoring letter case
ContainsIgnoringCase(name, term) ==
    \E k \in 0..(Len(name) - Len(term)) :
        \A i \in 1..Len(term) : SameLetter(name[k + i], term[i])

\* C18: with a non-empty searchTerm the listing holds exactly the members of
\* the current directory, folders and files alike, whose name contains the
\* term ignoring letter case; with an empty searchTerm it holds every member.
C18_SearchFilter ==
    /\ { Listing[k] : k \in DOMAIN Listing }
          = IF searchTerm = <<>> THEN Members
            ELSE { m \in Members : ContainsIgnoringCase(m.name, searchTerm) }
    /\ \A i, j \in DOMAIN Listing : i # j => Listing[i] # Listing[j]

\* an upper-case term is set, and the listing holds a folder and a file whose
\* names match it in lower case while a member of the directory is left out
C18_Witness ==
    /\ searchTerm = <<"B">>
    /\ \E i, j \in DOMAIN Listing :
          /\ Listing[i].type = "folder" /\ Listing[i].name = <<"b">>
          /\ Listing[j].type = "text" /\ Listing[j].name = <<"A", "b">>
    /\ Cardinality(Members) > Len(Listing)

\* the value of the sort key is smaller in a than in b
KeyLess(a, b) ==
    IF sortConfig.key = "name" THEN localeCompare(a.name, b.name) < 0
    ELSE a[sortConfig.key] < b[sortConfig.key]

\* C19: the listing has every folder before every non-folder; within the
\* folders and within the non-folders the nodes follow the sort key in the
\* chosen direction; and nodes with equal keys are in store order, in the
\* ascending and in the descending direction.
C19_StableFoldersFirst ==
    \A i, j \in DOMAIN Listing :
        i < j =>
            LET a == Listing[i]
                b == Listing[j]
            IN /\ ~(a.type # "folder" /\ b.type = "folder")
               /\ (a.type = "folder") = (b.type = "folder")
                    => /\ IF sortConfig.direction = "ascending"
                          THEN ~KeyLess(b, a) ELSE ~KeyLess(a, b)
                       /\ a[sortConfig.key] = b[sortConfig.key]
                            => MapGet(files, a.id) < MapGet(files, b.id)

\* a descending listing by size holds two files of equal size and a folder
\* that the store holds after one of them
C19_Witness ==
    /\ sortConfig = [key |-> "size", direction |-> "descending"]
    /\ \E i, j, f \in DOMAIN Listing :
          /\ i < j
          /\ Listing[i].type = "text" /\ Listing[j].type = "text"
          /\ Listing[i].size = Listing[j].size
          /\ Listing[f].type = "folder"
          /\ MapGet(files, Listing[f].id) > MapGet(files, Listing[i].id)

\* C20: after every deleteNodes call the selection is empty.
C20_DeleteClearsSelection ==
    [][ last'.op = "deleteNodes" => selection' = {} ]_vars

\* C21: a changeDirectory(path) to a path other than currentPath leaves the
\* selection empty before the next user action, and every changeDirectory
\* leaves searchTerm empty.
C21_DirectoryChangeClears ==
    [][ last'.op = "changeDirectory"
        => /\ searchTerm' = <<>>
           /\ last'.path # currentPath => selection' = {} ]_vars

\* a changeDirectory to another path was called with nodes selected and a
\* search term set
C21_Witness ==
    /\ last.op = "changeDirectory"
    /\ last.ids # {}
    /\ last.name # <<>>
    /\ currentPath # Root
    /\ selection = {}
    /\ searchTerm = <<>>

\* C22: toggleSelection(id) adds id when it is not selected and removes it
\* when it is, leaving every other selected id as it was; a second
\* toggleSelection(id) made right after the first, with or without a render
\* between them, restores the selection the first one found.
C22_ToggleSelection ==
    [][ last'.op = "toggleSelection"
        => /\ (last'.id \in selection') = (last'.id \notin selection)
           /\ selection' \ {last'.id} = selection \ {last'.id}
           /\ (last.op = "toggleSelection" /\ last.id = last'.id)
                 => selection' = last.ids
      ]_vars

\* since the latest render a node was created and toggleSelection was called
\* twice, and the selection is again the one that is rendered
C22_Witness ==
    /\ last.op = "toggleSelection"
    /\ rendered.files # files
    /\ last.ids # rendered.selection
    /\ selection = rendered.selection
    /\ last.ids = toggleSelection(rendered.selection, last.id)

\* C23: when the read of an upload completes, url or content is set on the
\* node that has the uploaded node's id and on no other node, whatever was
\* called in between; when no node has that id the store is unchanged.
C23_DecodeKeyedById ==
    [][ last'.op = "onload"
        => LET i == MapGet(files, last'.id)
           IN IF i = 0 THEN files' = files
              ELSE /\ Len(files') = Len(files)
                   /\ \A j \in DOMAIN files : j # i => files'[j] = files[j]
                   /\ [files'[i] EXCEPT !.url = files[i].url,
                                        !.content = files[i].content] = files[i]
      ]_vars

\* the read of an upload has completed after the uploaded node was deleted,
\* other nodes being in the store
C23_Witness ==
    /\ last.op = "onload"
    /\ LastNode = 0
    /\ ~isLoading
    /\ files # <<>>
    /\ reads = {}

\* C24: a createNode or uploadFile whose target path a node of the store
\* already has, the node of an earlier call of the same handler included,
\* fails and leaves the store unchanged, so no two nodes get the same path.
C24_ValidationSeesEarlierCalls ==
    [][ (last'.op \in {"createNode", "uploadFile"}
            /\ \E j \in DOMAIN files :
                  files[j].path = JoinPath(currentPath, last'.name))
        => (last'.status \in Errors /\ files' = files) ]_vars

\* C25: a successful createNode or uploadFile adds one node, with an id that
\* no node of the store has, and leaves every node of the store in place and
\* unchanged, whatever the clock reads; renameNode, moveNode and the
\* completion of a read leave every node's id as it was.
C25_IdUnique ==
    [][ /\ (last'.op \in {"createNode", "uploadFile"} /\ last'.status = "ok")
            => /\ last'.id \notin Ids(files)
               /\ Len(files') = Len(files) + 1
               /\ \A j \in DOMAIN files : files'[j] = files[j]
        /\ last'.op \in {"renameNode", "moveNode", "onload"}
            => /\ Len(files') = Len(files)
               /\ \A j \in DOMAIN files : files'[j].id = files[j].id
      ]_vars

\* C26: the seed is applied only while isLoading is true and leaves the store
\* holding the seed nodes, and a node that createNode or uploadFile has put
\* in the store, before or after the seed load, stays in the store through
\* every step that is not a deleteNodes call.
C26_SeededOnceNodesKept ==
    [][ /\ last'.op = "loadSeed"
            => /\ isLoading /\ ~isLoading'
               /\ \A k \in DOMAIN initialFiles :
                     \E j \in DOMAIN files' : files'[j] = initialFiles[k]
        /\ last'.op # "deleteNodes"
            => \A j \in DOMAIN files :
                  files[j].id \in Times => files[j].id \in Ids(files')
      ]_vars


\* every call of findChildrenRecursive in progress but the outermost was made
\* on a path strictly longer than that of the call that made it
CallsDescend ==
    \A k \in 2..Len(del.stack) :
        Len(del.stack[k].path) > Len(del.stack[k - 1].path)

\* C27: deleteNodes(ids) terminates for every store and every list of ids:
\* each recursive call of findChildrenRecursive is made on a path strictly
\* longer than its caller's, the call stack never overflows, and the recipe
\* reaches its end with the store replaced.
C27_DeleteNodesTerminates ==
    /\ [](del.variant = "deleteNodes" => CallsDescend /\ del.pc # "RangeError")
    /\ <>(del.pc = "done" /\ del.variant = "deleteNodes")

\* deleteNodes([1]) has ended on the store with /a/aa/a in /a/aa in /a, after
\* four calls of findChildrenRecursive, up to three in progress at once, and
\* removed all four nodes
C27_Witness ==
    /\ del.pc = "done"
    /\ del.variant = "deleteNodes"
    /\ del.calls = 4
    /\ Len(del.before) = 4
    /\ del.nodesToDelete = {1, 2, 3, 4}
    /\ files = <<>>

\* C28: deleteNode(id) of the Map-based variant terminates and yields the
\* store that deleteNodes([id]) yields: once the recipe is over it has ended
\* normally and the store is that of deleteNodes([id]) on the store before.
C28_DeleteNodeAsDeleteNodes ==
    (del.variant = "deleteNode" /\ del.pc \in {"done", "RangeError"})
        => /\ del.pc = "done"
           /\ files = deleteNodes(del.before, {del.root}).files

\* C29: currentPath is "/" or the path of a folder that is in the store,
\* whatever changeDirectory, create, rename, move and delete calls were made.
C29_CurrentPathValid ==
    \/ currentPath = Root
    \/ \E i \in DOMAIN files :
          files[i].path = currentPath /\ files[i].type = "folder"

\* C30: a successful renameNode or moveNode of node n changes only n and the
\* nodes whose path started with n's old path + "/"; of those only the path
\* changes; renameNode leaves n's parentId as it was; no node is added or
\* removed; currentPath, searchTerm, sortConfig and selection are unchanged.
C30_RenameMoveFrame ==
    [][ (last'.op \in {"renameNode", "moveNode"} /\ last'.status = "ok")
        => LET i == MapGet(files, last'.id) IN
           /\ i # 0
           /\ Len(files') = Len(files)
           /\ \A j \in DOMAIN files :
                 /\ files'[j].id = files[j].id
                 /\ IF j = i
                    THEN last'.op = "renameNode"
                            => files'[j].parentId = files[j].parentId
                    ELSE IF StartsWith(files[j].path, files[i].path \o Slash)
                    THEN [files'[j] EXCEPT !.path = files[j].path] = files[j]
                    ELSE files'[j] = files[j]
           /\ UNCHANGED <<currentPath, searchTerm, sortConfig, selection>>
      ]_vars

\* a folder has just been renamed or moved with a node under it, while the
\* store holds a node outside it whose path begins like the folder's old path
C30_Witness ==
    /\ last.op \in {"renameNode", "moveNode"}
    /\ last.status = "ok"
    /\ LastNode # 0
    /\ files[LastNode].type = "folder"
    /\ files[LastNode].path # initialFiles[1].path
    /\ files[LastNode].id = initialFiles[1].id
    /\ \E j \in DOMAIN files :
          StartsWith(files[j].path, files[LastNode].path \o Slash)
    /\ \E k \in DOMAIN files :
          /\ k # LastNode
          /\ StartsWith(files[k].path, initialFiles[1].path)
          /\ ~StartsWith(files[k].path, initialFiles[1].path \o Slash)
          /\ ~StartsWith(files[k].path, files[LastNode].path \o Slash)
====
